---- MODULE Spec2Model ----
(***************************************************************************)
(* Dynamic inventory management (Phase_3): an id -> product dictionary, a  *)
(* price-keyed AVL tree, a (price, id) min-heap, a double-ended priority   *)
(* queue of (price, product) entries and an unbalanced range tree, driven  *)
(* by the command loop of phase3.py.                                       *)
(*                                                                         *)
(* Python objects with identity (product dictionaries, tree nodes) live in *)
(* arenas: a reference is an index into the arena, Nil is the null         *)
(* reference.  A TypeError that the command loop does not catch ends the   *)
(* process: status becomes "crashed" and no further operation runs.        *)
(***************************************************************************)
EXTENDS Integers, Sequences, FiniteSets, TLC

VARIABLES
    inventory,   \* product id -> reference into objs, Nil when the id is absent
    objs,        \* arena of the product dictionaries created by add_product_with_heap
    nodes,       \* arena of AVLNode objects
    avl_root,    \* reference to the root AVLNode, Nil for the empty tree
    price_heap,  \* HeapHandler.price_heap: list of <<price, product_id>>
    min_heap,    \* DoubleEndedPriorityQueue.min_heap: list of <<price, product>>
    max_heap,    \* DoubleEndedPriorityQueue.max_heap: list of <<-price, product>>
    rnodes,      \* arena of RangeTreeNode objects
    range_root,  \* range_tree.root
    status,      \* "running", or "crashed" after an uncaught exception
    last,        \* the operation performed by the last step, with its arguments
    inserted,    \* the <<price, product>> arguments of the AVLTree.insert calls so far
    result,      \* what the last getter call on the queue or range query returned
    cache        \* the lru_cache of AVLTree.get_products_in_range

vars == <<inventory, objs, nodes, avl_root, price_heap, min_heap, max_heap,
          rnodes, range_root, status, last, inserted, result, cache>>

(***************************************************************************)
(* Bounds and input domains                                                *)
(***************************************************************************)
MaxInserts == 6
MaxAdds == 3
MaxQueue == 3
MaxDeepQueue == 6
MaxRange == 3
MaxCacheInserts == 3
MaxChainInserts == 5
MaxRotateInserts == 4

TreePrices == 1..6
QueryBounds == 0..7

ProductIds == {1, 2}
Prices == {0, 1}

Nil == 0
None == -999

Max(a, b) == IF a >= b THEN a ELSE b

(***************************************************************************)
(* avl_tree.py.  A tree operation returns [nodes, root]: the arena after   *)
(* the writes and the reference the method returns.                        *)
(***************************************************************************)
AVLNode(price, product) ==
    [price |-> price, product |-> product, left |-> Nil, right |-> Nil, height |-> 1]

get_height(ns, node) == IF node = Nil THEN 0 ELSE ns[node].height

get_balance(ns, node) ==
    IF node = Nil THEN 0
    ELSE get_height(ns, ns[node].left) - get_height(ns, ns[node].right)

\* node.height = 1 + max(get_height(node.left), get_height(node.right))
update_height(ns, node) ==
    [ns EXCEPT ![node].height =
        1 + Max(get_height(ns, ns[node].left), get_height(ns, ns[node].right))]

\* rotate_left with the two height updates of lines 103-104 left out.
rotate_left_no_height(ns, z) ==
    [nodes |-> [ns EXCEPT ![ns[z].right].left = z, ![z].right = ns[ns[z].right].left],
     root |-> ns[z].right]

\* rotate_left updating the height of y before the height of z.
rotate_left_heights_swapped(ns, z) ==
    [nodes |-> update_height(
                   update_height(
                       [ns EXCEPT ![ns[z].right].left = z,
                                  ![z].right = ns[ns[z].right].left],
                       ns[z].right),
                   z),
     root |-> ns[z].right]

\* y = z.right; T2 = y.left; y.left = z; z.right = T2; heights of z, then y
rotate_left(ns, z) ==
    [nodes |-> update_height(
                   update_height(
                       [ns EXCEPT ![ns[z].right].left = z,
                                  ![z].right = ns[ns[z].right].left],
                       z),
                   ns[z].right),
     root |-> ns[z].right]

\* rotate_right that re-links y.left, not y.right (T3), under z.
rotate_right_wrong_subtree(ns, z) ==
    [nodes |-> update_height(
                   update_height(
                       [ns EXCEPT ![ns[z].left].right = z,
                                  ![z].left = ns[ns[z].left].left],
                       z),
                   ns[z].left),
     root |-> ns[z].left]

\* y = z.left; T3 = y.right; y.right = z; z.left = T3; heights of z, then y
rotate_right(ns, z) ==
    [nodes |-> update_height(
                   update_height(
                       [ns EXCEPT ![ns[z].left].right = z,
                                  ![z].left = ns[ns[z].left].right],
                       z),
                   ns[z].left),
     root |-> ns[z].left]

\* set_right that does not store the returned subtree under root.
set_right_unlinked(r, root) == r.nodes

\* root.left = <returned subtree>, root.right = <returned subtree>
set_left(r, root) == [r.nodes EXCEPT ![root].left = r.root]
set_right(r, root) == [r.nodes EXCEPT ![root].right = r.root]

\* avl_tree.py lines 71-90: the balance factor and the four rotation cases.
rebalance(ns, root, price) ==
    IF get_balance(ns, root) > 1 /\ price < ns[ns[root].left].price
      THEN rotate_right(ns, root)
    ELSE IF get_balance(ns, root) < -1 /\ price > ns[ns[root].right].price
      THEN rotate_left(ns, root)
    ELSE IF get_balance(ns, root) > 1 /\ price > ns[ns[root].left].price
      THEN rotate_right(set_left(rotate_left(ns, ns[root].left), root), root)
    ELSE IF get_balance(ns, root) < -1 /\ price < ns[ns[root].right].price
      THEN rotate_left(set_right(rotate_right(ns, ns[root].right), root), root)
    ELSE [nodes |-> ns, root |-> root]

\* avl_tree.py lines 68-90: the part of insert that runs after the recursive call.
insert_rebalance(ns, root, price) == rebalance(update_height(ns, root), root, price)

\* The result of insert is [nodes, root, err]: err is TRUE when a comparison
\* with None raised TypeError, which happens before any node is written.
returned(t) == [nodes |-> t.nodes, root |-> t.root, err |-> FALSE]
raised(ns, root) == [nodes |-> ns, root |-> root, err |-> TRUE]

\* lines 61 and 68-90, r being what the recursive call returned
insert_left(ns, root, price, r) ==
    IF r.err THEN raised(ns, root)
    ELSE returned(insert_rebalance(set_left(r, root), root, price))

\* lines 63 and 68-90
insert_right(ns, root, price, r) ==
    IF r.err THEN raised(ns, root)
    ELSE returned(insert_rebalance(set_right(r, root), root, price))

RECURSIVE insert(_, _, _, _)
insert(ns, root, price, product) ==
    IF root = Nil
      THEN [nodes |-> Append(ns, AVLNode(price, product)), root |-> Len(ns) + 1,
            err |-> FALSE]
    ELSE IF price = None \/ ns[root].price = None
      THEN raised(ns, root)
    ELSE IF price < ns[root].price
      THEN insert_left(ns, root, price, insert(ns, ns[root].left, price, product))
    ELSE IF price > ns[root].price
      THEN insert_right(ns, root, price, insert(ns, ns[root].right, price, product))
    ELSE [nodes |-> ns, root |-> root, err |-> FALSE]

\* The range query written as an in-order walk: left subtree, node, right subtree.
RECURSIVE get_products_in_range_inorder(_, _, _, _)
get_products_in_range_inorder(ns, node, low, high) ==
    IF node = Nil THEN <<>>
    ELSE LET n  == ns[node]
             l  == IF low < n.price
                     THEN get_products_in_range_inorder(ns, n.left, low, high)
                     ELSE <<>>
             m  == IF low <= n.price /\ n.price <= high THEN <<n.product>> ELSE <<>>
             r  == IF high > n.price
                     THEN get_products_in_range_inorder(ns, n.right, low, high)
                     ELSE <<>>
         IN l \o m \o r

\* The range query accepting a price that satisfies either bound.
RECURSIVE get_products_in_range_either_bound(_, _, _, _)
get_products_in_range_either_bound(ns, node, low, high) ==
    IF node = Nil THEN <<>>
    ELSE LET n  == ns[node]
             r0 == IF low <= n.price \/ n.price <= high THEN <<n.product>> ELSE <<>>
             r1 == IF low < n.price
                     THEN r0 \o get_products_in_range_either_bound(ns, n.left, low, high)
                     ELSE r0
         IN IF high > n.price
              THEN r1 \o get_products_in_range_either_bound(ns, n.right, low, high)
              ELSE r1

RECURSIVE get_products_in_range_recursive(_, _, _, _)
get_products_in_range_recursive(ns, node, low, high) ==
    IF node = Nil THEN <<>>
    ELSE LET n  == ns[node]
             r0 == IF low <= n.price /\ n.price <= high THEN <<n.product>> ELSE <<>>
             r1 == IF low < n.price
                     THEN r0 \o get_products_in_range_recursive(ns, n.left, low, high)
                     ELSE r0
         IN IF high > n.price
              THEN r1 \o get_products_in_range_recursive(ns, n.right, low, high)
              ELSE r1

\* @lru_cache(maxsize=256) on get_products_in_range.  The key is the argument
\* tuple (root, low_price, high_price) beside self; an AVLNode hashes and
\* compares by identity, so root is the node reference.  c is the set of
\* [key, value] entries; fewer than maxsize keys occur, so none is evicted.
\* The result is [cache, value].
lru_lookup(c, key) == {entry \in c : entry.key = key}

lru_hit(c, hits) == [cache |-> c, value |-> (CHOOSE entry \in hits : TRUE).value]

lru_miss(c, key, value) ==
    [cache |-> c \cup {[key |-> key, value |-> value]}, value |-> value]

get_products_in_range(c, ns, root, low_price, high_price) ==
    IF lru_lookup(c, <<root, low_price, high_price>>) # {}
      THEN lru_hit(c, lru_lookup(c, <<root, low_price, high_price>>))
      ELSE lru_miss(c, <<root, low_price, high_price>>,
                    get_products_in_range_recursive(ns, root, low_price, high_price))

(***************************************************************************)
(* inventory_management.py, class AVLTree.  Its rotate_left, rotate_right, *)
(* get_height and get_balance (lines 137-175) and the height update and    *)
(* the four rotation cases of its insert (lines 88-106) are, statement for *)
(* statement, those of avl_tree.py, so the operators above stand for them. *)
(* The prices passed are numbers, so no comparison raises.                 *)
(* The callers of insert (lines 291 and 312) catch at most ValueError, so  *)
(* a raising insert ends the program with avl_root not reassigned.         *)
(***************************************************************************)
\* lines 91-106: the balance factor and the four rotation cases.  The result
\* is [nodes, root, err]; err is TRUE when rotate_left or rotate_right was
\* handed a node without the child it reads (y is None, so y.left or y.right
\* raises AttributeError before the rotation writes anything).
inventory_management_rebalance(ns, root, price) ==
    IF get_balance(ns, root) > 1 /\ price < ns[ns[root].left].price
      THEN returned(rotate_right(ns, root))
    ELSE IF get_balance(ns, root) < -1 /\ price > ns[ns[root].right].price
      THEN returned(rotate_left(ns, root))
    ELSE IF get_balance(ns, root) > 1 /\ price > ns[ns[root].left].price
      THEN IF ns[ns[root].left].right = Nil
             THEN raised(ns, root)
             ELSE returned(rotate_right(set_left(rotate_left(ns, ns[root].left), root),
                                        root))
    ELSE IF get_balance(ns, root) < -1 /\ price < ns[ns[root].right].price
      THEN IF ns[ns[root].right].left = Nil
             THEN raised(ns, root)
             ELSE returned(rotate_left(set_right(rotate_right(ns, ns[root].right), root),
                                       root))
    ELSE [nodes |-> ns, root |-> root, err |-> FALSE]

\* lines 83-84 and 88-106, r being what the recursive call returned; when it
\* raised, the writes it made to the nodes below stay.
inventory_management_insert_left(ns, root, price, r) ==
    IF r.err THEN raised(r.nodes, root)
    ELSE inventory_management_rebalance(update_height(set_left(r, root), root),
                                        root, price)

\* lines 85-86 and 88-106
inventory_management_insert_right(ns, root, price, r) ==
    IF r.err THEN raised(r.nodes, root)
    ELSE inventory_management_rebalance(update_height(set_right(r, root), root),
                                        root, price)

RECURSIVE inventory_management_insert(_, _, _, _)
inventory_management_insert(ns, root, price, product) ==
    IF root = Nil
      THEN [nodes |-> Append(ns, AVLNode(price, product)), root |-> Len(ns) + 1,
            err |-> FALSE]
    ELSE IF price < ns[root].price
      THEN inventory_management_insert_left(
               ns, root, price,
               inventory_management_insert(ns, ns[root].left, price, product))
    ELSE inventory_management_insert_right(
             ns, root, price,
             inventory_management_insert(ns, ns[root].right, price, product))

\* get_products_in_range(root, low, high, result): what the call appends to
\* result, in order.
RECURSIVE inventory_management_get_products_in_range(_, _, _, _)
inventory_management_get_products_in_range(ns, root, low, high) ==
    IF root = Nil THEN <<>>
    ELSE (IF low <= ns[root].price /\ ns[root].price <= high
            THEN <<ns[root].product>> ELSE <<>>)
         \o (IF low < ns[root].price
               THEN inventory_management_get_products_in_range(
                        ns, ns[root].left, low, high)
               ELSE <<>>)
         \o (IF high > ns[root].price
               THEN inventory_management_get_products_in_range(
                        ns, ns[root].right, low, high)
               ELSE <<>>)

(***************************************************************************)
(* heapq and list operations used by heap_handler.py and                   *)
(* double_ended_priority_queue.py.  Positions are 0-based as in the code;  *)
(* a heap operation returns [heap, err], err meaning TypeError was raised. *)
(* An entry is a tuple <<key, second>>; dicts tells whether the second     *)
(* component is a product dictionary (not orderable) or a product id.      *)
(***************************************************************************)
At(heap, pos) == heap[pos + 1]

Swap(heap, i, j) == [heap EXCEPT ![i + 1] = heap[j + 1], ![j + 1] = heap[i + 1]]

\* Python's a < b on two tuples: "lt", "ge", or "err" for TypeError.
TupleLt(a, b, dicts) ==
    IF a[1] # b[1]
      THEN IF a[1] = None \/ b[1] = None THEN "err"
           ELSE IF a[1] < b[1] THEN "lt" ELSE "ge"
    ELSE IF a[2] = b[2] THEN "ge"
    ELSE IF dicts THEN "err"
    ELSE IF a[2] < b[2] THEN "lt" ELSE "ge"

RECURSIVE siftdown(_, _, _, _)
siftdown(heap, startpos, pos, dicts) ==
    IF pos > startpos
      THEN LET parentpos == (pos - 1) \div 2
               c == TupleLt(At(heap, pos), At(heap, parentpos), dicts)
           IN IF c = "err" THEN [heap |-> heap, err |-> TRUE]
              ELSE IF c = "ge" THEN [heap |-> heap, err |-> FALSE]
              ELSE siftdown(Swap(heap, pos, parentpos), startpos, parentpos, dicts)
    ELSE [heap |-> heap, err |-> FALSE]

RECURSIVE siftup_from(_, _, _, _)
siftup_from(heap, startpos, pos, dicts) ==
    LET endpos == Len(heap)
        limit == endpos \div 2
    IN IF pos < limit
         THEN LET childpos == 2 * pos + 1
                  c == IF childpos + 1 < endpos
                         THEN TupleLt(At(heap, childpos), At(heap, childpos + 1), dicts)
                         ELSE "lt"
              IN IF c = "err" THEN [heap |-> heap, err |-> TRUE]
                 ELSE LET smaller == IF c = "ge" THEN childpos + 1 ELSE childpos
                      IN siftup_from(Swap(heap, pos, smaller), startpos, smaller, dicts)
       ELSE siftdown(heap, startpos, pos, dicts)

siftup(heap, pos, dicts) == siftup_from(heap, pos, pos, dicts)

\* heapify's loop: for i in reversed(range(n // 2)): _siftup(x, i).
\* heapify_step continues the loop after the call r = _siftup(x, i).
RECURSIVE heapify_from(_, _, _)
RECURSIVE heapify_step(_, _, _)
heapify_step(r, i, dicts) == IF r.err THEN r ELSE heapify_from(r.heap, i - 1, dicts)

heapify_from(heap, i, dicts) ==
    IF i < 0 THEN [heap |-> heap, err |-> FALSE]
    ELSE heapify_step(siftup(heap, i, dicts), i, dicts)

heapify(heap, dicts) == heapify_from(heap, (Len(heap) \div 2) - 1, dicts)

heappush(heap, item, dicts) == siftdown(Append(heap, item), 0, Len(heap), dicts)

\* list.remove(x): drops the first element equal to x; found is FALSE when the
\* code raises ValueError.
list_remove(lst, x) ==
    IF \E i \in 1..Len(lst) : lst[i] = x
      THEN LET k == CHOOSE i \in 1..Len(lst) :
                        lst[i] = x /\ \A j \in 1..(i - 1) : lst[j] # x
           IN [list |-> SubSeq(lst, 1, k - 1) \o SubSeq(lst, k + 1, Len(lst)),
               found |-> TRUE]
    ELSE [list |-> lst, found |-> FALSE]

(***************************************************************************)
(* heap_handler.py.  The functions work on st = [inventory, objs,          *)
(* price_heap, nodes, avl_root, err]: the dictionary, the class-level      *)
(* heap, and the tree the caller passes in and stores back.  A statement   *)
(* is an operator from st to st; once err is set (TypeError was raised)    *)
(* the statements after it do not run.                                     *)
(***************************************************************************)
InInventory(inv, product_id) == inv[product_id] # Nil

Product(product_id, name, category, price, quantity) ==
    [id |-> product_id, name |-> name, category |-> category,
     price |-> price, quantity |-> quantity]

\* add_product_to_heap appending the entry without sifting it up.
add_product_to_heap_appends(ph, product_id, price) ==
    [heap |-> Append(ph, <<price, product_id>>), err |-> FALSE]

add_product_to_heap(ph, product_id, price) == heappush(ph, <<price, product_id>>, FALSE)

\* remove_product_from_heap that re-orders the heap but drops nothing.
remove_product_from_heap_keeps_entry(ph, product_id, price) == heapify(ph, FALSE)

remove_product_from_heap(ph, product_id, price) ==
    LET r == list_remove(ph, <<price, product_id>>)
    IN IF r.found THEN heapify(r.list, FALSE) ELSE [heap |-> ph, err |-> FALSE]

get_lowest_price_product(ph, inv) ==
    IF Len(ph) > 0
      THEN LET product_id == At(ph, 0)[2]
           IN IF InInventory(inv, product_id) THEN inv[product_id] ELSE Nil
    ELSE Nil

\* st after a heap call returned or raised with h = [heap, err]
with_heap(st, h) == [st EXCEPT !.price_heap = h.heap, !.err = h.err]

\* st after avl_tree.insert returned or raised with t = [nodes, root, err]
with_tree(st, t) == [st EXCEPT !.nodes = t.nodes, !.avl_root = t.root, !.err = t.err]

\* inventory[product_id] = {...}
store_product(st, product) ==
    [st EXCEPT !.objs = Append(st.objs, product),
               !.inventory = [st.inventory EXCEPT ![product.id] = Len(st.objs) + 1]]

\* HeapHandler.remove_product_from_heap(product_id, current_price)
heap_remove(st, product_id, price) ==
    with_heap(st, remove_product_from_heap(st.price_heap, product_id, price))

\* HeapHandler.add_product_to_heap(product_id, price)
heap_push(st, product_id, price) ==
    IF st.err THEN st
    ELSE with_heap(st, add_product_to_heap(st.price_heap, product_id, price))

\* avl_root = avl_tree.insert(avl_root, price, inventory[product_id])
tree_insert(st, price, ref) ==
    IF st.err THEN st ELSE with_tree(st, insert(st.nodes, st.avl_root, price, ref))

\* set_fields testing "if quantity:" where the code tests
\* "if quantity is not None:", so that a quantity of 0 is skipped.
set_fields_truthy_quantity(st, ref, name, category, price, quantity) ==
    IF st.err THEN st
    ELSE [st EXCEPT !.objs[ref] =
            [@ EXCEPT !.name = IF name # "" THEN name ELSE @,
                      !.category = IF category # "" THEN category ELSE @,
                      !.price = IF price # None THEN price ELSE @,
                      !.quantity = IF quantity # None /\ quantity # 0
                                     THEN quantity ELSE @]]

\* The four conditional field assignments of update_product_with_heap.
set_fields(st, ref, name, category, price, quantity) ==
    IF st.err THEN st
    ELSE [st EXCEPT !.objs[ref] =
            [@ EXCEPT !.name = IF name # "" THEN name ELSE @,
                      !.category = IF category # "" THEN category ELSE @,
                      !.price = IF price # None THEN price ELSE @,
                      !.quantity = IF quantity # None THEN quantity ELSE @]]

\* del_product that empties the dictionary instead of deleting one key.
del_product_clear(st, product_id) ==
    IF st.err THEN st
    ELSE [st EXCEPT !.inventory = [i \in DOMAIN st.inventory |-> Nil]]

\* del inventory[product_id]
del_product(st, product_id) ==
    IF st.err THEN st
    ELSE [st EXCEPT !.inventory = [st.inventory EXCEPT ![product_id] = Nil]]

add_product_with_heap(product_id, name, category, price, quantity, st) ==
    IF InInventory(st.inventory, product_id) THEN st
    ELSE tree_insert(
             heap_push(
                 store_product(st, Product(product_id, name, category, price, quantity)),
                 product_id, price),
             price, Len(st.objs) + 1)

\* update_product_with_heap with the heap push placed before the existence check.
update_product_with_heap_push_first(product_id, name, category, price, quantity, st) ==
    IF ~InInventory(st.inventory, product_id)
      THEN heap_push(st, product_id, price)
    ELSE tree_insert(
             heap_push(
                 set_fields(
                     heap_remove(st, product_id, st.objs[st.inventory[product_id]].price),
                     st.inventory[product_id], name, category, price, quantity),
                 product_id, price),
             price, st.inventory[product_id])

update_product_with_heap(product_id, name, category, price, quantity, st) ==
    IF ~InInventory(st.inventory, product_id) THEN st
    ELSE tree_insert(
             heap_push(
                 set_fields(
                     heap_remove(st, product_id, st.objs[st.inventory[product_id]].price),
                     st.inventory[product_id], name, category, price, quantity),
                 product_id, price),
             price, st.inventory[product_id])

delete_product_with_heap(product_id, st) ==
    IF InInventory(st.inventory, product_id)
      THEN del_product(
               heap_remove(st, product_id, st.objs[st.inventory[product_id]].price),
               product_id)
    ELSE st

(***************************************************************************)
(* double_ended_priority_queue.py: q = [min_heap, max_heap, err]           *)
(***************************************************************************)
with_min_heap(q, h) == [q EXCEPT !.min_heap = h.heap, !.err = h.err]

with_max_heap(q, h) == [q EXCEPT !.max_heap = h.heap, !.err = h.err]

\* heapq.heappush(self.max_heap, (-product['price'], product))
push_max(q, product) ==
    IF q.err THEN q
    ELSE with_max_heap(q, heappush(q.max_heap, <<0 - product.price, product>>, TRUE))

add_product(q, product) ==
    push_max(with_min_heap(q, heappush(q.min_heap, <<product.price, product>>, TRUE)),
             product)

\* heapq.heapify(self.max_heap)
heapify_max(q) ==
    IF q.err THEN q ELSE with_max_heap(q, heapify(q.max_heap, TRUE))

\* remove_entries dropping the first min-heap entry when the record is absent.
remove_entries_drops_on_miss(q, a, b) ==
    IF ~a.found THEN [q EXCEPT !.min_heap = SubSeq(@, 2, Len(@))]
    ELSE IF ~b.found THEN [q EXCEPT !.min_heap = a.list]
    ELSE heapify_max(with_min_heap([q EXCEPT !.max_heap = b.list],
                                   heapify(a.list, TRUE)))

\* The try block of remove_product, a and b being what the two list.remove
\* calls give; a ValueError leaves the block.
remove_entries(q, a, b) ==
    IF ~a.found THEN q
    ELSE IF ~b.found THEN [q EXCEPT !.min_heap = a.list]
    ELSE heapify_max(with_min_heap([q EXCEPT !.max_heap = b.list],
                                   heapify(a.list, TRUE)))

remove_product(q, product) ==
    remove_entries(q,
                   list_remove(q.min_heap, <<product.price, product>>),
                   list_remove(q.max_heap, <<0 - product.price, product>>))

\* What a getter of the queue returns for an empty heap (Python's None).
NoProduct == Product(Nil, "", "", None, None)

\* DoubleEndedPriorityQueue.get_lowest_price_product
pq_get_lowest_price_product(q) ==
    IF Len(q.min_heap) > 0 THEN At(q.min_heap, 0)[2] ELSE NoProduct

\* get_highest_price_product answering None while the heap has one entry.
get_highest_price_product_skips_single(q) ==
    IF Len(q.max_heap) > 1 THEN At(q.max_heap, 0)[2] ELSE NoProduct

get_highest_price_product(q) ==
    IF Len(q.max_heap) > 0 THEN At(q.max_heap, 0)[2] ELSE NoProduct

(***************************************************************************)
(* range_tree.py, with key = 'price' as every caller passes it             *)
(***************************************************************************)
RangeTreeNode(product) == [product |-> product, left |-> Nil, right |-> Nil]

\* insert sending a record whose key equals the node's key to the left.
RECURSIVE RangeTree_insert_ties_left(_, _, _)
RangeTree_insert_ties_left(rns, root, product) ==
    IF root = Nil
      THEN [nodes |-> Append(rns, RangeTreeNode(product)), root |-> Len(rns) + 1]
    ELSE IF product.price <= rns[root].product.price
      THEN LET r == RangeTree_insert_ties_left(rns, rns[root].left, product)
           IN [nodes |-> [r.nodes EXCEPT ![root].left = r.root], root |-> root]
    ELSE LET r == RangeTree_insert_ties_left(rns, rns[root].right, product)
         IN [nodes |-> [r.nodes EXCEPT ![root].right = r.root], root |-> root]

RECURSIVE RangeTree_insert(_, _, _)
RangeTree_insert(rns, root, product) ==
    IF root = Nil
      THEN [nodes |-> Append(rns, RangeTreeNode(product)), root |-> Len(rns) + 1]
    ELSE IF product.price < rns[root].product.price
      THEN LET r == RangeTree_insert(rns, rns[root].left, product)
           IN [nodes |-> [r.nodes EXCEPT ![root].left = r.root], root |-> root]
    ELSE LET r == RangeTree_insert(rns, rns[root].right, product)
         IN [nodes |-> [r.nodes EXCEPT ![root].right = r.root], root |-> root]

\* The order of Python's str comparison on the category values in use.
CategoryOrder == <<"x", "y">>

StrRank(str) == CHOOSE i \in 1..Len(CategoryOrder) : CategoryOrder[i] = str

\* low <= root.product[key] <= high, on strings for the category and on
\* numbers for the price and the quantity
in_range(key, low, value, high) ==
    IF key = "category"
      THEN StrRank(low) <= StrRank(value) /\ StrRank(value) <= StrRank(high)
      ELSE low <= value /\ value <= high

\* is_in_range with any(...) where the code has all(...).
is_in_range_any(product, filters) ==
    \E key \in DOMAIN filters :
        in_range(key, filters[key][1], product[key], filters[key][2])

\* all(low <= root.product[key] <= high for key, (low, high) in filters.items())
is_in_range(product, filters) ==
    \A key \in DOMAIN filters :
        in_range(key, filters[key][1], product[key], filters[key][2])

\* The records query_by_parameters appends to result, in the order of the appends.
RECURSIVE query_by_parameters(_, _, _)
query_by_parameters(rns, root, filters) ==
    IF root = Nil THEN <<>>
    ELSE (IF is_in_range(rns[root].product, filters)
            THEN <<rns[root].product>> ELSE <<>>)
         \o query_by_parameters(rns, rns[root].left, filters)
         \o query_by_parameters(rns, rns[root].right, filters)

(***************************************************************************)
(* Initial state: the module-level objects of phase3.py                    *)
(***************************************************************************)
Op(op, product_id, name, category, price, quantity, present) ==
    [op |-> op, id |-> product_id, name |-> name, category |-> category,
     price |-> price, quantity |-> quantity, present |-> present]

NoOp == Op("none", Nil, "", "", None, None, FALSE)

Init ==
    /\ inventory = [i \in ProductIds |-> Nil]
    /\ objs = <<>>
    /\ nodes = <<>>
    /\ avl_root = Nil
    /\ price_heap = <<>>
    /\ min_heap = <<>>
    /\ max_heap = <<>>
    /\ rnodes = <<>>
    /\ range_root = Nil
    /\ status = "running"
    /\ last = NoOp
    /\ inserted = <<>>
    /\ result = NoProduct
    /\ cache = {}

(***************************************************************************)
(* AVLTree.insert called directly, the returned root stored by the caller  *)
(***************************************************************************)
TreeInsert(price) ==
    /\ Len(inserted) < MaxInserts
    /\ \E r \in {insert(nodes, avl_root, price, Len(inserted) + 1)} :
          /\ nodes' = r.nodes
          /\ avl_root' = r.root
    /\ inserted' = Append(inserted, <<price, Len(inserted) + 1>>)
    /\ last' = Op("insert", Len(inserted) + 1, "", "", price, None, FALSE)
    /\ UNCHANGED <<inventory, objs, price_heap, min_heap, max_heap, rnodes,
                   range_root, status, result, cache>>

TreeNext == \E price \in TreePrices : TreeInsert(price)

TreeSpec == Init /\ [][TreeNext]_vars

(***************************************************************************)
(* AVLTree.insert and AVLTree.get_products_in_range called on one tree     *)
(* object, the query with the root the caller stores.                      *)
(***************************************************************************)
QueryOp(low, high, hit) == [op |-> "query", low |-> low, high |-> high, hit |-> hit]

CacheInsert(price) ==
    /\ Len(inserted) < MaxCacheInserts
    /\ TreeInsert(price)

CachedQuery(low, high) ==
    /\ \E r \in {get_products_in_range(cache, nodes, avl_root, low, high)} :
          /\ cache' = r.cache
          /\ result' = r.value
    /\ last' = QueryOp(low, high, lru_lookup(cache, <<avl_root, low, high>>) # {})
    /\ UNCHANGED <<inventory, objs, nodes, avl_root, price_heap, min_heap, max_heap,
                   rnodes, range_root, status, inserted>>

\* The (low, high) pairs queried: two ranges and one with low > high.
CacheBounds == {<<1, 3>>, <<2, 3>>, <<3, 1>>}

CacheNext ==
    \/ \E price \in 1..3 : CacheInsert(price)
    \/ \E bounds \in CacheBounds : CachedQuery(bounds[1], bounds[2])

CacheSpec == Init /\ [][CacheNext]_vars

(***************************************************************************)
(* AVLTree.rotate_left and AVLTree.rotate_right called directly on a node  *)
(* of the tree, the caller storing the returned subtree where the node was *)
(* (as lines 77-88 of insert do), between calls of AVLTree.insert.         *)
(***************************************************************************)
\* root = rotate(root) or parent.left / parent.right = rotate(z): ns is the
\* arena before the call, r what the call returned.
store_subtree(ns, root, z, r) ==
    IF z = root THEN [nodes |-> r.nodes, root |-> r.root]
    ELSE [nodes |-> [n \in DOMAIN r.nodes |->
                        IF ns[n].left = z THEN [r.nodes[n] EXCEPT !.left = r.root]
                        ELSE IF ns[n].right = z THEN [r.nodes[n] EXCEPT !.right = r.root]
                        ELSE r.nodes[n]],
          root |-> root]

RotateInsert(price) ==
    /\ Len(inserted) < MaxRotateInserts
    /\ TreeInsert(price)

\* rotate is "rotate_left" or "rotate_right", r what it returned for node z;
\* result holds the returned reference.
Rotated(rotate, z, r) ==
    /\ \E t \in {store_subtree(nodes, avl_root, z, r)} :
          /\ nodes' = t.nodes
          /\ avl_root' = t.root
    /\ result' = r.root
    /\ last' = Op(rotate, z, "", "", None, None, TRUE)
    /\ UNCHANGED <<inventory, objs, price_heap, min_heap, max_heap, rnodes,
                   range_root, status, inserted, cache>>

RotateLeft(z) ==
    /\ nodes[z].right # Nil
    /\ Rotated("rotate_left", z, rotate_left(nodes, z))

RotateRight(z) ==
    /\ nodes[z].left # Nil
    /\ Rotated("rotate_right", z, rotate_right(nodes, z))

RotateNext ==
    \/ \E price \in 1..4 : RotateInsert(price)
    \/ \E z \in 1..Len(nodes) : RotateLeft(z)
    \/ \E z \in 1..Len(nodes) : RotateRight(z)

RotateSpec == Init /\ [][RotateNext]_vars

(***************************************************************************)
(* inventory_management.py: AVLTree.insert called directly on its own      *)
(* tree, the returned root stored by the caller.  nodes and avl_root hold  *)
(* that tree here.                                                         *)
(***************************************************************************)
ChainInsert(price) ==
    /\ status = "running"
    /\ Len(inserted) < MaxChainInserts
    /\ \E r \in {inventory_management_insert(nodes, avl_root, price,
                                             Len(inserted) + 1)} :
          /\ nodes' = r.nodes
          /\ avl_root' = IF r.err THEN avl_root ELSE r.root
          /\ status' = IF r.err THEN "crashed" ELSE "running"
    /\ inserted' = Append(inserted, <<price, Len(inserted) + 1>>)
    /\ last' = Op("insert", Len(inserted) + 1, "", "", price, None, FALSE)
    /\ UNCHANGED <<inventory, objs, price_heap, min_heap, max_heap, rnodes,
                   range_root, result, cache>>

ChainNext == \E price \in 1..3 : ChainInsert(price)

ChainSpec == Init /\ [][ChainNext]_vars

(***************************************************************************)
(* phase3.py, run_inventory_management: one action per menu choice.        *)
(***************************************************************************)
HeapHandlerState ==
    [inventory |-> inventory, objs |-> objs, price_heap |-> price_heap,
     nodes |-> nodes, avl_root |-> avl_root, err |-> FALSE]

Queue == [min_heap |-> min_heap, max_heap |-> max_heap, err |-> FALSE]

\* choice '1'
AddProduct(product_id, name, category, price, quantity) ==
    /\ status = "running"
    /\ Len(rnodes) < MaxAdds
    /\ \E st \in {add_product_with_heap(product_id, name, category, price, quantity,
                                        HeapHandlerState)},
          rt \in {RangeTree_insert(rnodes, range_root,
                                   Product(product_id, name, category, price, quantity))},
          q \in {add_product(Queue,
                             Product(product_id, name, category, price, quantity))} :
          /\ inventory' = st.inventory
          /\ objs' = st.objs
          /\ price_heap' = st.price_heap
          /\ nodes' = st.nodes
          /\ avl_root' = st.avl_root
          /\ IF st.err
               THEN /\ UNCHANGED <<rnodes, range_root, min_heap, max_heap>>
                    /\ status' = "crashed"
               ELSE /\ rnodes' = rt.nodes
                    /\ range_root' = rt.root
                    /\ min_heap' = q.min_heap
                    /\ max_heap' = q.max_heap
                    /\ status' = IF q.err THEN "crashed" ELSE "running"
    /\ last' = Op("add", product_id, name, category, price, quantity,
                  InInventory(inventory, product_id))
    /\ UNCHANGED <<inserted, result, cache>>

\* choice '2': a blank name or category is "", a blank price or quantity is None
UpdateProduct(product_id, name, category, price, quantity) ==
    /\ status = "running"
    /\ \E st \in {update_product_with_heap(product_id, name, category, price, quantity,
                                           HeapHandlerState)} :
          /\ inventory' = st.inventory
          /\ objs' = st.objs
          /\ price_heap' = st.price_heap
          /\ nodes' = st.nodes
          /\ avl_root' = st.avl_root
          /\ status' = IF st.err THEN "crashed" ELSE "running"
    /\ last' = Op("update", product_id, name, category, price, quantity,
                  InInventory(inventory, product_id))
    /\ UNCHANGED <<rnodes, range_root, min_heap, max_heap, inserted, result, cache>>

\* choice '3'
DeleteProduct(product_id) ==
    /\ status = "running"
    /\ IF InInventory(inventory, product_id)
         THEN \E st \in {delete_product_with_heap(product_id, HeapHandlerState)},
                 q \in {remove_product(Queue, objs[inventory[product_id]])} :
                 /\ inventory' = st.inventory
                 /\ objs' = st.objs
                 /\ price_heap' = st.price_heap
                 /\ nodes' = st.nodes
                 /\ avl_root' = st.avl_root
                 /\ IF st.err
                      THEN /\ UNCHANGED <<min_heap, max_heap>>
                           /\ status' = "crashed"
                      ELSE /\ min_heap' = q.min_heap
                           /\ max_heap' = q.max_heap
                           /\ status' = IF q.err THEN "crashed" ELSE "running"
         ELSE UNCHANGED <<inventory, objs, price_heap, nodes, avl_root, min_heap,
                          max_heap, status>>
    /\ last' = Op("delete", product_id, "", "", None, None,
                  InInventory(inventory, product_id))
    /\ UNCHANGED <<rnodes, range_root, inserted, result, cache>>

\* The field tuples <<name, category, price, quantity>> over the given sets.
Fields(names, categories, prices, quantities) ==
    names \X categories \X prices \X quantities

\* One command of the loop: adds and updates are the sets of field tuples the
\* user may type, "" and None standing for a blank answer to an update prompt.
Command(adds, updates) ==
    \E product_id \in ProductIds :
        \/ \E f \in adds : AddProduct(product_id, f[1], f[2], f[3], f[4])
        \/ \E f \in updates : UpdateProduct(product_id, f[1], f[2], f[3], f[4])
        \/ DeleteProduct(product_id)

\* Prices vary; an update changes the price or leaves every field blank.
Next ==
    Command(Fields({"a"}, {"x"}, Prices, {1}),
            Fields({""}, {""}, Prices \cup {None}, {None}))

Spec == Init /\ [][Next]_vars

\* Every update supplies a price and leaves the other fields blank.
PricedNext ==
    Command(Fields({"a"}, {"x"}, Prices, {1}),
            Fields({""}, {""}, Prices, {None}))

PricedSpec == Init /\ [][PricedNext]_vars

\* Adds and updates only.  Every field of an update is blank or a new value;
\* with the price blank, one other field is given.
FieldAdds == Fields({"a"}, {"x"}, {1, 2}, {1})

FieldUpdates ==
    Fields({"", "b"}, {"", "y"}, {2}, {None, 0})
      \cup {<<"b", "", None, None>>, <<"", "y", None, None>>, <<"", "", None, 0>>}

FieldNext ==
    \E product_id \in ProductIds :
        \/ \E f \in FieldAdds : AddProduct(product_id, f[1], f[2], f[3], f[4])
        \/ \E f \in FieldUpdates : UpdateProduct(product_id, f[1], f[2], f[3], f[4])

FieldSpec == Init /\ [][FieldNext]_vars

\* Adds and deletes only, an id being added again under another name.
ReuseAdds == Fields({"a", "b"}, {"x"}, Prices, {1})

ReuseNext ==
    \E product_id \in ProductIds :
        \/ \E f \in ReuseAdds : AddProduct(product_id, f[1], f[2], f[3], f[4])
        \/ DeleteProduct(product_id)

ReuseSpec == Init /\ [][ReuseNext]_vars

(***************************************************************************)
(* DoubleEndedPriorityQueue called directly: add_product, remove_product   *)
(* and the two getters on one queue object.  A TypeError leaves the call   *)
(* with the heaps as they are at the raise and reaches the caller.         *)
(***************************************************************************)
\* The entry of the record is in the min-heap.
InQueue(product) == <<product.price, product>> \in {min_heap[i] : i \in 1..Len(min_heap)}

QueueOp(op, product, present) ==
    Op(op, product.id, product.name, product.category, product.price,
       product.quantity, present)

QueueAdd(product, max) ==
    /\ status = "running"
    /\ Len(min_heap) < max
    /\ \E q \in {add_product(Queue, product)} :
          /\ min_heap' = q.min_heap
          /\ max_heap' = q.max_heap
          /\ status' = IF q.err THEN "crashed" ELSE "running"
    /\ last' = QueueOp("pq_add", product, InQueue(product))
    /\ UNCHANGED <<inventory, objs, nodes, avl_root, price_heap, rnodes, range_root,
                   inserted, result, cache>>

QueueRemove(product) ==
    /\ status = "running"
    /\ \E q \in {remove_product(Queue, product)} :
          /\ min_heap' = q.min_heap
          /\ max_heap' = q.max_heap
          /\ status' = IF q.err THEN "crashed" ELSE "running"
    /\ last' = QueueOp("pq_remove", product, InQueue(product))
    /\ UNCHANGED <<inventory, objs, nodes, avl_root, price_heap, rnodes, range_root,
                   inserted, result, cache>>

QueueGetLowest ==
    /\ status = "running"
    /\ result' = pq_get_lowest_price_product(Queue)
    /\ last' = QueueOp("pq_lowest", NoProduct, FALSE)
    /\ UNCHANGED <<inventory, objs, nodes, avl_root, price_heap, min_heap, max_heap,
                   rnodes, range_root, status, inserted, cache>>

QueueGetHighest ==
    /\ status = "running"
    /\ result' = get_highest_price_product(Queue)
    /\ last' = QueueOp("pq_highest", NoProduct, FALSE)
    /\ UNCHANGED <<inventory, objs, nodes, avl_root, price_heap, min_heap, max_heap,
                   rnodes, range_root, status, inserted, cache>>

\* Records of three ids at three prices.
QueueProducts == {Product(id, "a", "x", price, 1) : id \in 1..3, price \in 1..3}

QueueNext ==
    \/ \E product \in QueueProducts : QueueAdd(product, MaxQueue)
    \/ \E product \in QueueProducts : QueueRemove(product)
    \/ QueueGetLowest
    \/ QueueGetHighest

QueueSpec == Init /\ [][QueueNext]_vars

\* A longer queue over five records: one at each of the prices 1, 2 and 4 and
\* two at price 3.
DeepProducts ==
    {Product(1, "a", "x", price, 1) : price \in 1..4} \cup {Product(2, "a", "x", 3, 1)}

DeepQueueNext ==
    \/ \E product \in DeepProducts : QueueAdd(product, MaxDeepQueue)
    \/ \E product \in DeepProducts : QueueRemove(product)

DeepQueueSpec == Init /\ [][DeepQueueNext]_vars

(***************************************************************************)
(* RangeTree.insert called directly with key = 'price', the returned root  *)
(* stored in range_tree.root.                                              *)
(***************************************************************************)
RangeInsert(product) ==
    /\ Len(rnodes) < MaxRange
    /\ \E rt \in {RangeTree_insert(rnodes, range_root, product)} :
          /\ rnodes' = rt.nodes
          /\ range_root' = rt.root
    /\ inserted' = Append(inserted, <<product.price, product>>)
    /\ last' = QueueOp("range_insert", product, FALSE)
    /\ UNCHANGED <<inventory, objs, nodes, avl_root, price_heap, min_heap, max_heap,
                   status, result, cache>>

RangeProducts ==
    {Product(1, "a", category, price, quantity) :
         category \in {"x", "y"}, price \in 1..2, quantity \in 1..2}

RangeNext == \E product \in RangeProducts : RangeInsert(product)

RangeSpec == Init /\ [][RangeNext]_vars

(***************************************************************************)
(* Helpers of the properties                                               *)
(***************************************************************************)
SeqToSet(s) == {s[i] : i \in 1..Len(s)}

IsAscending(s) == \A i \in 1..(Len(s) - 1) : s[i] <= s[i + 1]

\* The node references of a subtree: left subtree, node, right subtree.
RECURSIVE InOrder(_, _)
InOrder(ns, node) ==
    IF node = Nil THEN <<>>
    ELSE InOrder(ns, ns[node].left) \o <<node>> \o InOrder(ns, ns[node].right)

\* The node references of a subtree: node, left subtree, right subtree.
RECURSIVE PreOrder(_, _)
PreOrder(ns, node) ==
    IF node = Nil THEN <<>>
    ELSE <<node>> \o PreOrder(ns, ns[node].left) \o PreOrder(ns, ns[node].right)

PricesOf(ns, refs) == [i \in 1..Len(refs) |-> ns[refs[i]].price]
ProductsOf(ns, refs) == [i \in 1..Len(refs) |-> ns[refs[i]].product]

\* The products of the AVLTree.insert calls so far whose price is in [low, high].
InsertedInRange(low, high) ==
    {inserted[i][2] : i \in {j \in 1..Len(inserted) :
                                low <= inserted[j][1] /\ inserted[j][1] <= high}}

RangeQuery(low, high) == get_products_in_range_recursive(nodes, avl_root, low, high)

\* Some price was passed to AVLTree.insert more than once.
PriceRepeated ==
    \E i, j \in 1..Len(inserted) : i < j /\ inserted[i][1] = inserted[j][1]

(***************************************************************************)
(* C1: after any sequence of AVLTree.insert calls from the empty tree, for *)
(* every (low, high) the range query returns exactly the records of the    *)
(* inserted (price, record) pairs with low <= price <= high.               *)
(***************************************************************************)
C1_RangeQueryReturnsAllInserted ==
    \A low, high \in QueryBounds :
        SeqToSet(RangeQuery(low, high)) = InsertedInRange(low, high)

(***************************************************************************)
(* C2: after every insert, every node has height = 1 + max of its          *)
(* children's heights (empty = 0) and a balance factor in {-1, 0, 1}.      *)
(***************************************************************************)
C2_HeightAndBalance ==
    \A n \in 1..Len(nodes) :
        /\ nodes[n].height = 1 + Max(get_height(nodes, nodes[n].left),
                                     get_height(nodes, nodes[n].right))
        /\ get_balance(nodes, n) \in {-1, 0, 1}

\* Six nodes after a rotation moved the root, the last call repeating a price.
C2_Witness ==
    /\ Len(nodes) >= 5
    /\ avl_root # 1
    /\ nodes[avl_root].height = 3
    /\ PriceRepeated

(***************************************************************************)
(* C3: an in-order traversal of the tree yields prices in non-decreasing   *)
(* order.                                                                  *)
(***************************************************************************)
C3_InOrderSorted == IsAscending(PricesOf(nodes, InOrder(nodes, avl_root)))

C3_Witness ==
    /\ Len(nodes) >= 5
    /\ avl_root # 1
    /\ Len(InOrder(nodes, avl_root)) = Len(nodes)

(***************************************************************************)
(* C4: for every (low, high) the list returned by the range query is in    *)
(* ascending price order.                                                  *)
(***************************************************************************)
\* The prices of the records a query returns; record k is the one passed to
\* the k-th AVLTree.insert call.
ResultPrices(low, high) ==
    LET res == RangeQuery(low, high)
    IN [i \in 1..Len(res) |-> inserted[res[i]][1]]

Live == {id \in ProductIds : InInventory(inventory, id)}

HeapEntriesOf(id) == {i \in 1..Len(price_heap) : price_heap[i][2] = id}

\* The last command was op and found its id present (or absent) on entry.
Did(op, present) == last.op = op /\ last.present = present

(***************************************************************************)
(* C5: an add of a product whose id already exists leaves the inventory,   *)
(* the AVL tree, the price heap and the double-ended priority queue        *)
(* unchanged.                                                              *)
(***************************************************************************)
C5_DuplicateAddChangesNothing ==
    [][(last'.op = "add" /\ last'.present) =>
          UNCHANGED <<inventory, objs, nodes, avl_root, price_heap, min_heap, max_heap>>]_vars

(***************************************************************************)
(* C6: an update or a delete of an id that is absent from the inventory    *)
(* leaves the inventory, the price heap and the AVL tree (root and nodes)  *)
(* as they were.                                                           *)
(***************************************************************************)
C6_AbsentIdChangesNothing ==
    [][(last'.op \in {"update", "delete"} /\ ~last'.present) =>
          UNCHANGED <<inventory, objs, price_heap, nodes, avl_root>>]_vars

\* An update that gives a price for an absent id while another record is live.
C6_Witness ==
    /\ Did("update", FALSE)
    /\ last.price # None
    /\ Live # {}
    /\ status = "running"

(***************************************************************************)
(* C7: after every add, update or delete the price heap holds exactly one  *)
(* entry for each id of the inventory and none for any other id.           *)
(***************************************************************************)
C7_HeapIdsMatchInventory ==
    \A id \in ProductIds :
        Cardinality(HeapEntriesOf(id)) = IF id \in Live THEN 1 ELSE 0

\* A price update of one of two live records, after which one id is deleted.
C7_Witness ==
    /\ Did("delete", TRUE)
    /\ Cardinality(Live) = 1
    /\ Len(nodes) >= 2
    /\ Len(price_heap) = 1

(***************************************************************************)
(* C8: after an add of a new id with price p the record is in the          *)
(* inventory, the heap holds (p, id), and the range query (p, p) on the    *)
(* stored root returns the record.                                         *)
(***************************************************************************)
C8_AddedRecordInEveryStructure ==
    Did("add", FALSE) =>
        /\ InInventory(inventory, last.id)
        /\ <<last.price, last.id>> \in SeqToSet(price_heap)
        /\ inventory[last.id] \in SeqToSet(RangeQuery(last.price, last.price))

(***************************************************************************)
(* C9: an update of an existing id sets each provided field of that record *)
(* to the provided value, leaves each omitted field and the id as they     *)
(* were, and leaves every other record of the inventory unchanged.         *)
(***************************************************************************)
C9_UpdateSetsProvidedFieldsOnly ==
    [][(last'.op = "update" /\ last'.present) =>
          LET ref == inventory[last'.id]
              old == objs[ref]
              new == objs'[ref]
          IN /\ inventory' = inventory
             /\ Len(objs') = Len(objs)
             /\ new.id = old.id
             /\ new.name = IF last'.name # "" THEN last'.name ELSE old.name
             /\ new.category =
                    IF last'.category # "" THEN last'.category ELSE old.category
             /\ new.price = IF last'.price # None THEN last'.price ELSE old.price
             /\ new.quantity =
                    IF last'.quantity # None THEN last'.quantity ELSE old.quantity
             /\ \A r \in 1..Len(objs) : r # ref => objs'[r] = objs[r]]_vars

\* An update giving name, price and a quantity of 0 with the category blank,
\* while a second record is live.
C9_Witness ==
    /\ Did("update", TRUE)
    /\ last.name = "b" /\ last.category = "" /\ last.price = 2 /\ last.quantity = 0
    /\ Cardinality(Live) = 2
    /\ objs[inventory[last.id]].category = "y"

(***************************************************************************)
(* C10: an update of an existing id that omits the price completes without *)
(* error, and the heap entry and the tree node re-inserted for the record  *)
(* are keyed at the record's unchanged current price.                      *)
(***************************************************************************)
C10_UpdateWithoutPriceKeepsKey ==
    (Did("update", TRUE) /\ last.price = None) =>
        LET ref == inventory[last.id]
        IN /\ status = "running"
           /\ <<objs[ref].price, last.id>> \in SeqToSet(price_heap)
           /\ <<None, last.id>> \notin SeqToSet(price_heap)
           /\ \E n \in 1..Len(nodes) :
                  nodes[n].product = ref /\ nodes[n].price = objs[ref].price

(***************************************************************************)
(* C11: after an update changes a record's price from p to q # p, no range *)
(* query whose bounds contain p but not q returns that record.             *)
(***************************************************************************)
\* The update just performed gave an existing record a price other than its own.
PriceChanged ==
    /\ last'.op = "update" /\ last'.present
    /\ last'.price # None
    /\ last'.price # objs[inventory[last'.id]].price

C11_NoGhostNodeAfterPriceUpdate ==
    [][PriceChanged =>
          \A low, high \in Prices :
              (/\ low <= objs[inventory[last'.id]].price
               /\ objs[inventory[last'.id]].price <= high
               /\ ~(low <= last'.price /\ last'.price <= high))
              => inventory[last'.id] \notin
                     SeqToSet(get_products_in_range_recursive(nodes', avl_root',
                                                              low, high))]_vars

(***************************************************************************)
(* C12: after a delete of an existing id the record is gone from the       *)
(* inventory and from the heap, and no range query on the stored root      *)
(* returns it.                                                             *)
(***************************************************************************)
C12_DeletedRecordInNoStructure ==
    [][(last'.op = "delete" /\ last'.present) =>
          /\ ~InInventory(inventory', last'.id)
          /\ \A i \in 1..Len(price_heap') : price_heap'[i][2] # last'.id
          /\ \A low, high \in Prices :
                 inventory[last'.id] \notin
                     SeqToSet(get_products_in_range_recursive(nodes', avl_root',
                                                              low, high))]_vars

(***************************************************************************)
(* C13: a delete of an existing id removes that id from the inventory and  *)
(* leaves every other id present with the field values it had.             *)
(***************************************************************************)
C13_DeleteRemovesOnlyThatId ==
    [][(last'.op = "delete" /\ last'.present) =>
          /\ ~InInventory(inventory', last'.id)
          /\ \A other \in ProductIds \ {last'.id} :
                 /\ inventory'[other] = inventory[other]
                 /\ InInventory(inventory, other) =>
                        objs'[inventory'[other]] = objs[inventory[other]]]_vars

\* A delete of one of two live records, the other one having had its price
\* updated before.
C13_Witness ==
    /\ Did("delete", TRUE)
    /\ status = "running"
    /\ \E other \in Live :
          /\ other # last.id
          /\ Cardinality({n \in 1..Len(nodes) : nodes[n].product = inventory[other]}) = 2

(***************************************************************************)
(* C14: after a delete of an id followed by an add of the same id, the add *)
(* succeeds, the heap holds one entry for the id, at the new price, and    *)
(* every range query returns for that id the new record only (when its     *)
(* price is within the bounds) and never the deleted one.                  *)
(***************************************************************************)
\* The records with the given id that the range query (low, high) returns
\* in the next state.
ReturnedFor(id, low, high) ==
    {objs'[r] : r \in {x \in SeqToSet(get_products_in_range_recursive(
                                          nodes', avl_root', low, high)) :
                           objs'[x].id = id}}

C14_ReAddExposesOnlyNewRecord ==
    [][(/\ last.op = "delete" /\ last.present
        /\ last'.op = "add" /\ last'.id = last.id) =>
          /\ InInventory(inventory', last'.id)
          /\ objs'[inventory'[last'.id]] =
                 Product(last'.id, last'.name, last'.category, last'.price,
                         last'.quantity)
          /\ \A i \in 1..Len(price_heap') :
                 price_heap'[i][2] = last'.id => price_heap'[i][1] = last'.price
          /\ \A low, high \in Prices :
                 ReturnedFor(last'.id, low, high) =
                     IF low <= last'.price /\ last'.price <= high
                       THEN {objs'[inventory'[last'.id]]}
                       ELSE {}]_vars

(***************************************************************************)
(* C15: after an update sets a record's price above the price of every     *)
(* other live record, get_highest_price_product of the queue returns that  *)
(* record, and neither getter returns an entry of that record at another   *)
(* price than its current one.                                             *)
(***************************************************************************)
C15_QueueFollowsPriceUpdate ==
    (/\ Did("update", TRUE)
     /\ last.price # None
     /\ \A other \in Live \ {last.id} : objs[inventory[other]].price < last.price)
    => /\ get_highest_price_product(Queue).id = last.id
       /\ get_highest_price_product(Queue).price = last.price
       /\ pq_get_lowest_price_product(Queue).id = last.id =>
              pq_get_lowest_price_product(Queue).price = last.price

(***************************************************************************)
(* Properties of the double-ended priority queue                           *)
(***************************************************************************)
\* The records held by a heap of the queue.
RecordsOf(heap) == {heap[i][2] : i \in 1..Len(heap)}

\* How many entries of a heap hold the record.
CountOf(heap, product) == Cardinality({i \in 1..Len(heap) : heap[i][2] = product})

(***************************************************************************)
(* C16: while the queue is non-empty, the price of get_lowest_price_product *)
(* is <= the price of every record in the queue, which is <= the price of  *)
(* get_highest_price_product.                                              *)
(***************************************************************************)
C16_LowestAndHighestBoundAllRecords ==
    \A product \in RecordsOf(min_heap) \cup RecordsOf(max_heap) :
        /\ pq_get_lowest_price_product(Queue).price <= product.price
        /\ product.price <= get_highest_price_product(Queue).price

(***************************************************************************)
(* C17: after any sequence of add_product and remove_product calls the     *)
(* min-heap and the max-heap hold the same multiset of records.            *)
(***************************************************************************)
C17_HeapsHoldSameRecords ==
    \A product \in RecordsOf(min_heap) \cup RecordsOf(max_heap) :
        CountOf(min_heap, product) = CountOf(max_heap, product)

(***************************************************************************)
(* C18: remove_product called with a record that is not in the queue       *)
(* raises nothing and leaves both heaps unchanged.                         *)
(***************************************************************************)
C18_RemoveAbsentChangesNothing ==
    [][(last'.op = "pq_remove" /\ ~last'.present) =>
          /\ UNCHANGED <<min_heap, max_heap>>
          /\ status' = "running"]_vars

\* The record removed is absent while the queue holds two records, one of
\* them with the same id at another price.
C18_Witness ==
    /\ Did("pq_remove", FALSE)
    /\ Len(min_heap) = 2 /\ Len(max_heap) = 2
    /\ \E product \in RecordsOf(min_heap) :
          product.id = last.id /\ product.price # last.price

(***************************************************************************)
(* C19: the two getters leave both heaps as they are, and each returns     *)
(* nothing exactly when the queue holds no record.                         *)
(***************************************************************************)
C19_GettersOnlyRead ==
    [][(last'.op \in {"pq_lowest", "pq_highest"}) =>
          /\ UNCHANGED <<min_heap, max_heap>>
          /\ (result' = NoProduct) <=> (min_heap = <<>> /\ max_heap = <<>>)]_vars

\* get_highest_price_product returned the only record of the queue.
C19_Witness ==
    /\ last.op = "pq_highest"
    /\ Len(max_heap) = 1
    /\ result = max_heap[1][2]
    /\ result # NoProduct

(***************************************************************************)
(* C20: for every tree built by RangeTree.insert and every filters mapping, *)
(* query_by_parameters appends exactly the inserted records for which      *)
(* low <= record[attr] <= high holds for every attribute in filters, each  *)
(* once; with an empty mapping it appends every inserted record.           *)
(***************************************************************************)
FilterKeys == {"price", "category", "quantity"}

\* The filters mapping with the given keys.
FiltersOf(keys, price, category, quantity) ==
    [key \in keys |-> CASE key = "price" -> price
                        [] key = "category" -> category
                        [] key = "quantity" -> quantity]

\* How often the record occurs in a sequence of records.
Occurrences(records, product) ==
    Cardinality({i \in 1..Len(records) : records[i] = product})

InsertedRecords == [i \in 1..Len(inserted) |-> inserted[i][2]]

\* The (low, high) pairs tried for a key of the mapping; one placeholder for
\* a key the mapping does not have.
BoundsOf(keys, key, values) == IF key \in keys THEN values \X values ELSE {<<>>}

\* The record satisfies low <= record[attr] <= high for every attribute given.
Matches(product, keys, price, category, quantity) ==
    /\ "price" \in keys => price[1] <= product.price /\ product.price <= price[2]
    /\ "quantity" \in keys =>
           quantity[1] <= product.quantity /\ product.quantity <= quantity[2]
    /\ "category" \in keys =>
           /\ StrRank(category[1]) <= StrRank(product.category)
           /\ StrRank(product.category) <= StrRank(category[2])

C20_QueryByParametersReturnsMatches ==
    \A keys \in SUBSET FilterKeys :
        \A price \in BoundsOf(keys, "price", 0..3),
           quantity \in BoundsOf(keys, "quantity", 1..2),
           category \in BoundsOf(keys, "category", {"x", "y"}) :
            \A appended \in {query_by_parameters(
                                 rnodes, range_root,
                                 FiltersOf(keys, price, category, quantity))} :
                \A product \in RangeProducts :
                    Occurrences(appended, product) =
                        IF Matches(product, keys, price, category, quantity)
                          THEN Occurrences(InsertedRecords, product)
                          ELSE 0

\* Three records, one of them inserted twice, in a tree with a left and a
\* right subtree.
C20_Witness ==
    /\ Len(rnodes) = 3
    /\ rnodes[range_root].left # Nil /\ rnodes[range_root].right # Nil
    /\ \E i, j \in 1..Len(inserted) : i < j /\ inserted[i] = inserted[j]

(***************************************************************************)
(* C21: a range query with low > high, on the empty tree or any other,     *)
(* ends without error and returns an empty result.                         *)
(***************************************************************************)
C21_ReversedBoundsReturnNothing ==
    /\ (last.op = "query" /\ last.low > last.high) => result = <<>>
    /\ \A low, high \in QueryBounds :
           low > high =>
               get_products_in_range_recursive(nodes, avl_root, low, high) = <<>>

\* A query with low > high on a tree of three nodes, the same query having
\* been made before the last insert.
C21_Witness ==
    /\ last.op = "query" /\ last.low > last.high
    /\ Len(InOrder(nodes, avl_root)) = 3
    /\ Cardinality({entry \in cache : entry.key[2] > entry.key[3]}) >= 2

(***************************************************************************)
(* C22: a range query reflects the tree as it is at the time of the call:  *)
(* it returns what the walk of the tree under the current root returns,    *)
(* records inserted since an earlier call with the same bounds included.   *)
(***************************************************************************)
C22_QueryReflectsCurrentTree ==
    last.op = "query" =>
        result = get_products_in_range_recursive(nodes, avl_root, last.low, last.high)

(***************************************************************************)
(* C23: after a delete of an existing id through choice 3, neither         *)
(* get_lowest_price_product nor get_highest_price_product of the queue     *)
(* returns a record with that id.                                          *)
(***************************************************************************)
C23_DeletedIdLeavesQueue ==
    Did("delete", TRUE) =>
        /\ pq_get_lowest_price_product(Queue).id # last.id
        /\ get_highest_price_product(Queue).id # last.id

(***************************************************************************)
(* C24: AVLTree.insert with a price already in the tree returns the tree   *)
(* unchanged (same nodes, the first record at that price kept); with a new *)
(* price the (price, record) pairs of the tree are the old ones plus the   *)
(* new pair.                                                               *)
(***************************************************************************)
\* The (price, record) pairs of the nodes under root.
PairsOf(ns, root) ==
    {<<ns[n].price, ns[n].product>> : n \in SeqToSet(InOrder(ns, root))}

C24_InsertAddsPairUnlessPricePresent ==
    [][(last'.op = "insert") =>
          IF last'.price \in SeqToSet(PricesOf(nodes, InOrder(nodes, avl_root)))
            THEN nodes' = nodes /\ avl_root' = avl_root
            ELSE PairsOf(nodes', avl_root') =
                     PairsOf(nodes, avl_root) \cup {<<last'.price, last'.id>>}]_vars

\* The last insert repeated a price of a tree of four nodes; the one before
\* it added a node.
C24_Witness ==
    /\ last.op = "insert"
    /\ Len(nodes) = 4
    /\ Len(inserted) = 5
    /\ inserted[4][1] = nodes[4].price
    /\ \E n \in 1..3 : nodes[n].price = last.price

(***************************************************************************)
(* C25: in the tree of inventory_management.py, which chains equal prices  *)
(* to the right, after any sequence of inserts, repeated prices included,  *)
(* every node has |height(left) - height(right)| <= 1.                     *)
(***************************************************************************)
RECURSIVE Height(_, _)
Height(ns, node) ==
    IF node = Nil THEN 0
    ELSE 1 + Max(Height(ns, ns[node].left), Height(ns, ns[node].right))

C25_ChainedTreeBalanced ==
    \A n \in SeqToSet(InOrder(nodes, avl_root)) :
        /\ Height(nodes, nodes[n].left) - Height(nodes, nodes[n].right) \in {-1, 0, 1}
        /\ get_balance(nodes, n) \in {-1, 0, 1}

(***************************************************************************)
(* C26: in the tree of inventory_management.py, after any sequence of      *)
(* inserts, repeated prices included, get_products_in_range(root, low,     *)
(* high, result) appends every inserted record with low <= price <= high,  *)
(* all records sharing one price and high equal to that price included.    *)
(***************************************************************************)
C26_ChainedRangeQueryComplete ==
    \A low, high \in 0..4 :
        InsertedInRange(low, high) \subseteq
            SeqToSet(inventory_management_get_products_in_range(
                         nodes, avl_root, low, high))

(***************************************************************************)
(* C27: after any sequence of RangeTree.insert calls with one key, every   *)
(* node has all keys of its left subtree strictly below its own key and    *)
(* all keys of its right subtree at or above it, and the tree holds        *)
(* exactly the multiset of inserted records, duplicates included.          *)
(***************************************************************************)
KeysOf(rns, refs) == {rns[m].product.price : m \in SeqToSet(refs)}

C27_RangeTreeOrderedAndComplete ==
    /\ \A n \in 1..Len(rnodes) :
          /\ \A k \in KeysOf(rnodes, InOrder(rnodes, rnodes[n].left)) :
                k < rnodes[n].product.price
          /\ \A k \in KeysOf(rnodes, InOrder(rnodes, rnodes[n].right)) :
                k >= rnodes[n].product.price
    /\ Len(InOrder(rnodes, range_root)) = Len(inserted)
    /\ \A product \in RangeProducts :
          Occurrences(ProductsOf(rnodes, InOrder(rnodes, range_root)), product)
              = Occurrences(InsertedRecords, product)

\* Three records, one below the root and one sharing the root's key.
C27_Witness ==
    /\ Len(inserted) = 3
    /\ rnodes[range_root].left # Nil
    /\ rnodes[range_root].right # Nil
    /\ rnodes[rnodes[range_root].right].product.price = rnodes[range_root].product.price

(***************************************************************************)
(* C28: after any sequence of add, delete and update commands in which     *)
(* every update supplies a price, HeapHandler.get_lowest_price_product     *)
(* returns nothing exactly when the inventory is empty, and otherwise      *)
(* returns a live inventory record whose price is the minimum over all     *)
(* live records.                                                           *)
(***************************************************************************)
C28_LowestIsLiveMinimum ==
    \A ref \in {get_lowest_price_product(price_heap, inventory)} :
        /\ (ref = Nil) <=> (Live = {})
        /\ ref # Nil =>
              /\ \E id \in Live : inventory[id] = ref
              /\ \A id \in Live : objs[ref].price <= objs[inventory[id]].price

\* Both ids live after an update lowered the price of id 2 below that of id 1.
C28_Witness ==
    /\ Did("update", TRUE)
    /\ status = "running"
    /\ Live = ProductIds
    /\ last.id = 2
    /\ objs[inventory[2]].price < objs[inventory[1]].price
    /\ get_lowest_price_product(price_heap, inventory) = inventory[2]
    /\ Len(objs) = 3

(***************************************************************************)
(* C29: add_product of a record whose price equals the price of a record   *)
(* already in the queue completes without error, and afterwards both       *)
(* records are in both heaps.                                              *)
(***************************************************************************)
SamePriceRecords(price) ==
    {min_heap[i][2] : i \in {j \in 1..Len(min_heap) : min_heap[j][1] = price}}

C29_AddAtEqualPriceSucceeds ==
    [][(last'.op = "pq_add" /\ SamePriceRecords(last'.price) # {}) =>
          /\ status' = "running"
          /\ \A product \in SamePriceRecords(last'.price)
                              \cup {Product(last'.id, last'.name, last'.category,
                                            last'.price, last'.quantity)} :
                /\ product \in RecordsOf(min_heap')
                /\ product \in RecordsOf(max_heap')]_vars

(***************************************************************************)
(* C30: rotate_left and rotate_right, applied to a node that has the       *)
(* required child, return a subtree with the same set of nodes and the     *)
(* same in-order sequence of prices as the subtree of that node before,    *)
(* and with the height fields of the two re-linked nodes equal to 1 + max  *)
(* of their children's heights.                                            *)
(***************************************************************************)
HeightFieldCurrent(ns, n) ==
    ns[n].height = 1 + Max(get_height(ns, ns[n].left), get_height(ns, ns[n].right))

C30_RotationPreservesSubtree ==
    [][(last'.op \in {"rotate_left", "rotate_right"}) =>
          /\ result' = IF last'.op = "rotate_left"
                         THEN nodes[last'.id].right ELSE nodes[last'.id].left
          /\ SeqToSet(InOrder(nodes', result')) = SeqToSet(InOrder(nodes, last'.id))
          /\ Len(InOrder(nodes', result')) = Len(InOrder(nodes, last'.id))
          /\ PricesOf(nodes', InOrder(nodes', result'))
                = PricesOf(nodes, InOrder(nodes, last'.id))
          /\ HeightFieldCurrent(nodes', last'.id)
          /\ HeightFieldCurrent(nodes', result')]_vars

\* A left rotation below the root that moved a subtree T2 under z.
C30_Witness ==
    /\ last.op = "rotate_left"
    /\ Len(nodes) = 4
    /\ result # avl_root
    /\ nodes[result].left = last.id
    /\ nodes[last.id].right # Nil

====
